---- MODULE Spec2Model ----
(***************************************************************************)
(* Model of main.py: the cart, checkout and order handlers of the          *)
(* e-commerce API, each handler run by a request that owns one SQLAlchemy  *)
(* session.  The database is the shared state; a request's reads and its   *)
(* commits are separate steps, since the handlers run in a thread pool and *)
(* hold no lock between a SELECT and the flush that follows it.            *)
(* Prices and amounts are exact integers.  The currency column is left     *)
(* out.  ProductCreate.stock is a plain int, so every product's stock is   *)
(* tracked (never NULL).  A product's record keeps a flag live, FALSE once  *)
(* its row is deleted; the catalog is fixed at two products, create_product *)
(* is left out.                                                            *)
(***************************************************************************)
EXTENDS Integers, Sequences, FiniteSets, TLC

\* ---------------------------------------------------------------- bounds
\* MaxRequests: requests started in one run.  MaxQty: largest quantity of one
\* add or update (the requests use MaxQty - 1 and MaxQty).  InitStock: the
\* stock every product is created with.
MaxRequests == 3
MaxQty == 3
InitStock == 5

Users == {1, 2}
Products == {1, 2}
Req == {1, 2}
Qtys == (MaxQty - 1)..MaxQty
Names == {"n1", "n2"}
Prices == {1, 2}
StockInputs == {0, InitStock}

VARIABLES products, cart, orders, items, req, started, edited

vars == <<products, cart, orders, items, req, started, edited>>
db == <<products, cart, orders, items>>

\* ---------------------------------------------------------------- helpers
Max(S) == CHOOSE x \in S : \A y \in S : y <= x

\* INTEGER PRIMARY KEY on SQLite: a new row gets the largest id in use plus one.
NextId(rows) == IF rows = {} THEN 1 ELSE Max({x.id : x \in rows}) + 1

\* rows of a query, in primary-key order
RECURSIVE SortedById(_)
SortedById(rows) ==
    IF rows = {} THEN <<>>
    ELSE LET first == CHOOSE x \in rows : \A y \in rows : x.id <= y.id
         IN <<first>> \o SortedById(rows \ {first})

RECURSIVE SumQuantity(_)
SumQuantity(rows) ==
    IF rows = {} THEN 0
    ELSE LET x == CHOOSE y \in rows : TRUE
         IN x.quantity + SumQuantity(rows \ {x})

RECURSIVE SumSubtotal(_)
SumSubtotal(rows) ==
    IF rows = {} THEN 0
    ELSE LET x == CHOOSE y \in rows : TRUE
         IN x.subtotal + SumSubtotal(rows \ {x})

CartOf(u) == {c \in cart : c.user = u}
ItemsOf(oid) == {it \in items : it.order = oid}

\* view_cart: the rows listed for a user; line 389 raises AttributeError on a
\* row whose product is gone
view_cart(u) ==
    IF \E c \in CartOf(u) : ~products[c.product].live
    THEN "ServerError"
    ELSE CartOf(u)

\* ---------------------------------------------------------------- session state
NotLoaded == [loaded |-> FALSE]
NoMem == [p \in Products |-> NotLoaded]

\* the place of a deleted products row
NoProduct == [name |-> "n1", price |-> 1, stock |-> 0, live |-> FALSE]

Idle == [op |-> "none", user |-> 0, arg |-> 0, qty |-> 0, pc |-> "done",
         lines |-> <<>>, i |-> 0, total |-> 0, oid |-> 0, pend |-> <<>>,
         mem |-> NoMem, res |-> "none", conc |-> 0]

\* the response of a finished request; the session is closed and its objects dropped
Finished(rq, result) ==
    [Idle EXCEPT !.op = rq.op, !.user = rq.user, !.arg = rq.arg, !.res = result,
                 !.oid = rq.oid, !.i = rq.i]

\* conc of a request in flight records whether another request took a step
\* meanwhile: 1 for a request of another user, 2 for one of the same user.
Others(r, u) ==
    [r2 \in Req |->
        IF r2 # r /\ req[r2].pc # "done"
        THEN [req[r2] EXCEPT !.conc = IF req[r2].user = u THEN 2
                                      ELSE IF @ = 0 THEN 1 ELSE @]
        ELSE req[r2]]

Step(r, rq) == req' = [Others(r, rq.user) EXCEPT ![r] = rq]

\* a new request takes the first free worker
CanStart(r) ==
    /\ req[r].pc = "done"
    /\ \A r2 \in Req : r2 < r => req[r2].pc # "done"
    /\ started < MaxRequests

Begin(u, opname) == [Idle EXCEPT !.op = opname, !.user = u, !.pc = opname]

Init ==
    /\ products = [p \in Products |-> [name |-> "n1", price |-> 1, stock |-> InitStock,
                                        live |-> TRUE]]
    /\ cart = {}
    /\ orders = {}
    /\ items = {}
    /\ req = [r \in Req |-> Idle]
    /\ started = 0
    /\ edited = FALSE

\* ---------------------------------------------------------------- products
\* the edit carried into the order items of the product
update_product_live(r) ==
    /\ CanStart(r)
    /\ \E p \in Products, n \in Names, pr \in Prices, s \in StockInputs :
        IF products[p].live
        THEN /\ products' = [products EXCEPT ![p] = [name |-> n, price |-> pr,
                                                      stock |-> s, live |-> TRUE]]
             /\ items' = {IF it.product = p
                           THEN [it EXCEPT !.name = n, !.unit_price = pr,
                                           !.subtotal = pr * it.quantity]
                           ELSE it : it \in items}
             /\ Step(r, Finished([Begin(0, "update_product") EXCEPT !.arg = p], "ok"))
        ELSE /\ UNCHANGED <<products, items>>
             /\ Step(r, Finished([Begin(0, "update_product") EXCEPT !.arg = p],
                                 "NotFound"))
    /\ started' = started + 1
    /\ edited' = TRUE
    /\ UNCHANGED <<cart, orders>>

\* update_product, lines 319-326; 404 for a product that is gone
update_product(r) ==
    /\ CanStart(r)
    /\ \E p \in Products, n \in Names, pr \in Prices, s \in StockInputs :
        IF products[p].live
        THEN /\ products' = [products EXCEPT ![p] = [name |-> n, price |-> pr,
                                                      stock |-> s, live |-> TRUE]]
             /\ Step(r, Finished([Begin(0, "update_product") EXCEPT !.arg = p], "ok"))
        ELSE /\ UNCHANGED products
             /\ Step(r, Finished([Begin(0, "update_product") EXCEPT !.arg = p],
                                 "NotFound"))
    /\ started' = started + 1
    /\ edited' = TRUE
    /\ UNCHANGED <<cart, orders, items>>

\* delete_product, lines 334-339: the flush deletes the order items of the
\* product (cascade "all, delete" of Product.order_items, line 79) and then
\* the products row; cart rows of the product are left as they are.  The
\* handler's read and its commit are one step, as for update_product.
delete_product(r) ==
    /\ CanStart(r)
    /\ \E p \in Products :
        LET rq == [Begin(0, "delete_product") EXCEPT !.arg = p]
        IN IF products[p].live
           THEN /\ products' = [products EXCEPT ![p] = NoProduct]
                /\ items' = {it \in items : it.product # p}
                /\ Step(r, Finished(rq, "ok"))
           ELSE /\ UNCHANGED <<products, items>>
                /\ Step(r, Finished(rq, "NotFound"))
    /\ started' = started + 1
    /\ edited' = TRUE
    /\ UNCHANGED <<cart, orders>>

\* ---------------------------------------------------------------- cart
\* add_to_cart, lines 350-360: the product and stock check, then the query
\* for an existing row of the pair (the first one, in primary-key order).
add_to_cart(r) ==
    /\ CanStart(r)
    /\ \E u \in Users, p \in Products, q \in Qtys :
        LET rq == [Begin(u, "add_to_cart") EXCEPT !.arg = p, !.qty = q]
            same == {c \in cart : c.user = u /\ c.product = p}
        IN IF ~products[p].live
           THEN Step(r, Finished(rq, "NotFound"))
           ELSE IF q > products[p].stock
           THEN Step(r, Finished(rq, "InsufficientStock"))
           ELSE Step(r, [rq EXCEPT !.pc = "add_commit",
                                   !.lines = IF same = {} THEN <<>>
                                             ELSE <<SortedById(same)[1]>>])
    /\ started' = started + 1
    /\ UNCHANGED <<db, edited>>

\* the merge written as an assignment of the added quantity
add_commit_overwrite(r) ==
    /\ req[r].pc = "add_commit"
    /\ req[r].lines # <<>>
    /\ LET existing == req[r].lines[1]
       IN /\ \E c \in cart : c.id = existing.id
          /\ cart' = {IF c.id = existing.id
                      THEN [c EXCEPT !.quantity = req[r].qty]
                      ELSE c : c \in cart}
    /\ Step(r, Finished(req[r], "ok"))
    /\ UNCHANGED <<products, orders, items, started, edited>>

\* lines 361-370: UPDATE cart_items SET quantity = (quantity as read) + qty
\* WHERE id = existing.id, or INSERT of a new row; then the commit.
add_commit_merge(r) ==
    /\ req[r].pc = "add_commit"
    /\ req[r].lines # <<>>
    /\ LET existing == req[r].lines[1]
       IN /\ \E c \in cart : c.id = existing.id
          /\ cart' = {IF c.id = existing.id
                      THEN [c EXCEPT !.quantity = existing.quantity + req[r].qty]
                      ELSE c : c \in cart}
    /\ Step(r, Finished(req[r], "ok"))
    /\ UNCHANGED <<products, orders, items, started, edited>>

\* the row read as existing is gone when the UPDATE runs: StaleDataError
add_commit_stale(r) ==
    /\ req[r].pc = "add_commit"
    /\ req[r].lines # <<>>
    /\ ~ \E c \in cart : c.id = req[r].lines[1].id
    /\ Step(r, Finished(req[r], "ServerError"))
    /\ UNCHANGED <<db, started, edited>>

add_commit_insert(r) ==
    /\ req[r].pc = "add_commit"
    /\ req[r].lines = <<>>
    /\ cart' = cart \cup {[id |-> NextId(cart), user |-> req[r].user,
                           product |-> req[r].arg, quantity |-> req[r].qty]}
    /\ Step(r, Finished(req[r], "ok"))
    /\ UNCHANGED <<products, orders, items, started, edited>>

\* the lookup by id alone, without the comparison of user_id
update_cart_item_unowned(r) ==
    /\ CanStart(r)
    /\ \E u \in Users, id \in 1..(NextId(cart)), q \in Qtys :
        LET rq == [Begin(u, "update_cart_item") EXCEPT !.arg = id, !.qty = q]
            found == {c \in cart : c.id = id}
        IN IF found = {}
           THEN Step(r, Finished(rq, "NotFound"))
           ELSE LET ci == CHOOSE c \in found : TRUE
                IN IF ~products[ci.product].live
                   THEN Step(r, Finished(rq, "ServerError"))
                   ELSE IF q > products[ci.product].stock
                   THEN Step(r, Finished(rq, "InsufficientStock"))
                   ELSE Step(r, [rq EXCEPT !.pc = "update_commit"])
    /\ started' = started + 1
    /\ UNCHANGED <<db, edited>>

\* update_cart_item, lines 403-408: the ownership and stock checks; line 407
\* raises AttributeError when the row's product is gone
update_cart_item(r) ==
    /\ CanStart(r)
    /\ \E u \in Users, id \in 1..(NextId(cart)), q \in Qtys :
        LET rq == [Begin(u, "update_cart_item") EXCEPT !.arg = id, !.qty = q]
            found == {c \in cart : c.id = id /\ c.user = u}
        IN IF found = {}
           THEN Step(r, Finished(rq, "NotFound"))
           ELSE LET ci == CHOOSE c \in found : TRUE
                IN IF ~products[ci.product].live
                   THEN Step(r, Finished(rq, "ServerError"))
                   ELSE IF q > products[ci.product].stock
                   THEN Step(r, Finished(rq, "InsufficientStock"))
                   ELSE Step(r, [rq EXCEPT !.pc = "update_commit"])
    /\ started' = started + 1
    /\ UNCHANGED <<db, edited>>

\* lines 409-410: UPDATE cart_items SET quantity = qty WHERE id = item_id
update_commit(r) ==
    /\ req[r].pc = "update_commit"
    /\ \E c \in cart : c.id = req[r].arg
    /\ cart' = {IF c.id = req[r].arg THEN [c EXCEPT !.quantity = req[r].qty] ELSE c
                : c \in cart}
    /\ Step(r, Finished(req[r], "ok"))
    /\ UNCHANGED <<products, orders, items, started, edited>>

update_commit_stale(r) ==
    /\ req[r].pc = "update_commit"
    /\ ~ \E c \in cart : c.id = req[r].arg
    /\ Step(r, Finished(req[r], "ServerError"))
    /\ UNCHANGED <<db, started, edited>>

\* remove_cart_item, lines 423-425
remove_cart_item(r) ==
    /\ CanStart(r)
    /\ \E u \in Users, id \in 1..(NextId(cart)) :
        LET rq == [Begin(u, "remove_cart_item") EXCEPT !.arg = id]
        IN IF \E c \in cart : c.id = id /\ c.user = u
           THEN Step(r, [rq EXCEPT !.pc = "remove_commit"])
           ELSE Step(r, Finished(rq, "NotFound"))
    /\ started' = started + 1
    /\ UNCHANGED <<db, edited>>

\* lines 426-427: DELETE FROM cart_items WHERE id = item_id
remove_commit(r) ==
    /\ req[r].pc = "remove_commit"
    /\ \E c \in cart : c.id = req[r].arg
    /\ cart' = {c \in cart : c.id # req[r].arg}
    /\ Step(r, Finished(req[r], "ok"))
    /\ UNCHANGED <<products, orders, items, started, edited>>

remove_commit_stale(r) ==
    /\ req[r].pc = "remove_commit"
    /\ ~ \E c \in cart : c.id = req[r].arg
    /\ Step(r, Finished(req[r], "ServerError"))
    /\ UNCHANGED <<db, started, edited>>

\* clear_cart, lines 432-433: one bulk DELETE and its commit
clear_cart(r) ==
    /\ CanStart(r)
    /\ \E u \in Users :
        /\ cart' = cart \ CartOf(u)
        /\ Step(r, Finished(Begin(u, "clear_cart"), "ok"))
    /\ started' = started + 1
    /\ UNCHANGED <<products, orders, items, edited>>

\* ---------------------------------------------------------------- orders (reads)
OrderOut(o) == [id |-> o.id, total_amount |-> o.total, items |-> ItemsOf(o.id)]

\* get_order, lines 583-601: the order with its items, or 404
get_order(u, id) ==
    IF \E o \in orders : o.id = id /\ o.user = u
    THEN OrderOut(CHOOSE o \in orders : o.id = id /\ o.user = u)
    ELSE "NotFound"

\* list_orders, lines 555-579: the caller's orders with their items
list_orders(u) == {OrderOut(o) : o \in {x \in orders : x.user = u}}

\* the responses of download_invoice: the 404 and the FileResponse of an
\* order's invoice
InvoiceNotFound == [status |-> "NotFound", order |-> 0]
InvoiceFile(id) == [status |-> "Document", order |-> id]

\* the lookup by id alone, without the comparison of user_id
download_invoice_unowned(u, id) ==
    LET found == {o \in orders : o.id = id}
    IN IF found = {} THEN InvoiceNotFound
       ELSE IF ~(CHOOSE o \in found : TRUE).invoice THEN InvoiceNotFound
       ELSE InvoiceFile(id)

\* download_invoice, lines 605-610.  An order's invoice flag says that
\* invoice_path is set; the file it names was saved (line 489) before the
\* path was stored (line 539) and no handler removes files, so the flag also
\* stands for os.path.exists at line 608.
download_invoice(u, id) ==
    LET found == {o \in orders : o.id = id /\ o.user = u}
    IN IF found = {} THEN InvoiceNotFound
       ELSE IF ~(CHOOSE o \in found : TRUE).invoice THEN InvoiceNotFound
       ELSE InvoiceFile(id)

\* ---------------------------------------------------------------- checkout
\* db.get(Product, id): the identity map's object when it is loaded, else a
\* SELECT (live FALSE stands for None)
LoadProduct(mem, p) ==
    IF mem[p].loaded THEN mem[p]
    ELSE [loaded |-> TRUE, name |-> products[p].name, price |-> products[p].price,
          stock |-> products[p].stock, live |-> products[p].live, dirty |-> FALSE]

\* the decrement without its floor
StockAfterUnfloored(s, q) == s - q

\* line 527: max(0, product.stock - ci.quantity)
StockAfter(s, q) == IF s - q > 0 THEN s - q ELSE 0

\* an empty cart taken through to an order of total 0
checkout_empty_order(r) ==
    /\ CanStart(r)
    /\ \E u \in Users :
        LET rq == Begin(u, "checkout")
        IN IF CartOf(u) = {}
           THEN /\ orders' = orders \cup {[id |-> NextId(orders), user |-> u,
                                            total |-> 0, invoice |-> TRUE]}
                /\ Step(r, Finished([rq EXCEPT !.oid = NextId(orders)], "ok"))
           ELSE /\ UNCHANGED orders
                /\ Step(r, [rq EXCEPT !.pc = "co_validate", !.i = 1,
                                      !.lines = SortedById(CartOf(u))])
    /\ started' = started + 1
    /\ UNCHANGED <<products, cart, items, edited>>

\* lines 494-496: the cart query
checkout(r) ==
    /\ CanStart(r)
    /\ \E u \in Users :
        LET rq == Begin(u, "checkout")
        IN IF CartOf(u) = {}
           THEN Step(r, Finished(rq, "EmptyCart"))
           ELSE Step(r, [rq EXCEPT !.pc = "co_validate", !.i = 1,
                                   !.lines = SortedById(CartOf(u))])
    /\ started' = started + 1
    /\ UNCHANGED <<db, edited>>

\* the stock check and the stock decrement done in the same loop
checkout_validate_eager(r) ==
    /\ req[r].pc = "co_validate"
    /\ LET rq == req[r]
           ci == rq.lines[rq.i]
           product == LoadProduct(rq.mem, ci.product)
       IN IF ~product.live
          THEN /\ Step(r, Finished(rq, "ServerError"))
               /\ UNCHANGED products
          ELSE IF ci.quantity > product.stock
          THEN /\ Step(r, Finished(rq, "InsufficientStock"))
               /\ UNCHANGED products
          ELSE /\ Step(r, [rq EXCEPT !.total = @ + product.price * ci.quantity,
                                  !.i = IF rq.i = Len(rq.lines) THEN 1 ELSE @ + 1,
                                  !.pc = IF rq.i = Len(rq.lines) THEN "co_order" ELSE @])
               /\ products' = [products EXCEPT ![ci.product].stock =
                                  product.stock - ci.quantity]
    /\ UNCHANGED <<cart, orders, items, started, edited>>

\* lines 501-506, one iteration: the stock check of one cart line; line 503
\* raises AttributeError when the product is gone
checkout_validate(r) ==
    /\ req[r].pc = "co_validate"
    /\ LET rq == req[r]
           ci == rq.lines[rq.i]
           product == LoadProduct(rq.mem, ci.product)
       IN IF ~product.live
          THEN Step(r, Finished(rq, "ServerError"))
          ELSE IF ci.quantity > product.stock
          THEN Step(r, Finished(rq, "InsufficientStock"))
          ELSE Step(r, [rq EXCEPT !.total = @ + product.price * ci.quantity,
                                  !.mem[ci.product] = product,
                                  !.i = IF rq.i = Len(rq.lines) THEN 1 ELSE @ + 1,
                                  !.pc = IF rq.i = Len(rq.lines) THEN "co_order" ELSE @])
    /\ UNCHANGED <<db, started, edited>>

\* lines 509-512: INSERT of the order and the first commit, which expires
\* every object of the session
checkout_order(r) ==
    /\ req[r].pc = "co_order"
    /\ LET oid == NextId(orders)
       IN /\ orders' = orders \cup {[id |-> oid, user |-> req[r].user,
                                      total |-> req[r].total, invoice |-> FALSE]}
          /\ Step(r, [req[r] EXCEPT !.oid = oid, !.mem = NoMem, !.pc = "co_items"])
    /\ UNCHANGED <<products, cart, items, started, edited>>

\* lines 515-527, one iteration: the cart line is reloaded by primary key,
\* the product is fetched, the OrderItem is added to the session and the
\* product's stock is lowered in memory; line 519 raises AttributeError when
\* the product is gone, and the order stays as committed
checkout_item(r) ==
    /\ req[r].pc = "co_items"
    /\ \E row \in cart :
        /\ row.id = req[r].lines[req[r].i].id
        /\ LET rq == req[r]
               product == LoadProduct(rq.mem, row.product)
               left == StockAfter(product.stock, row.quantity)
               oi == [product |-> row.product, name |-> product.name,
                      unit_price |-> product.price, quantity |-> row.quantity,
                      subtotal |-> product.price * row.quantity]
           IN IF ~product.live
              THEN Step(r, Finished(rq, "ServerError"))
              ELSE Step(r, [rq EXCEPT
                                 !.pend = Append(@, oi),
                                 !.mem[row.product] =
                                     [product EXCEPT !.stock = left,
                                                     !.dirty = @ \/ left # product.stock],
                                 !.i = IF rq.i = Len(rq.lines) THEN @ ELSE @ + 1,
                                 !.pc = IF rq.i = Len(rq.lines) THEN "co_commit" ELSE @])
    /\ UNCHANGED <<db, started, edited>>

\* the cart line's row was deleted after the first commit: ObjectDeletedError,
\* the pending rows are dropped and the order stays as committed
checkout_item_deleted(r) ==
    /\ req[r].pc = "co_items"
    /\ ~ \E row \in cart : row.id = req[r].lines[req[r].i].id
    /\ Step(r, Finished(req[r], "ServerError"))
    /\ UNCHANGED <<db, started, edited>>

\* line 528: the flush (INSERT of the order items, UPDATE of each changed
\* product's stock to the value computed in memory) and the second commit;
\* an UPDATE that matches no row (the product was deleted after it was
\* loaded) raises StaleDataError and the flush is rolled back
checkout_commit(r) ==
    /\ req[r].pc = "co_commit"
    /\ LET rq == req[r]
           base == NextId(items)
       IN IF \E p \in Products : rq.mem[p].loaded /\ rq.mem[p].dirty /\ ~products[p].live
          THEN /\ Step(r, Finished(rq, "ServerError"))
               /\ UNCHANGED <<products, items>>
          ELSE
          /\ items' = items \cup
                {[id |-> base + k - 1, order |-> rq.oid, product |-> rq.pend[k].product,
                  name |-> rq.pend[k].name, unit_price |-> rq.pend[k].unit_price,
                  quantity |-> rq.pend[k].quantity, subtotal |-> rq.pend[k].subtotal]
                 : k \in 1..Len(rq.pend)}
          /\ products' = [p \in Products |->
                IF rq.mem[p].loaded /\ rq.mem[p].dirty
                THEN [products[p] EXCEPT !.stock = rq.mem[p].stock]
                ELSE products[p]]
          /\ Step(r, [rq EXCEPT !.pend = <<>>, !.mem = NoMem, !.pc = "co_clear"])
    /\ UNCHANGED <<cart, orders, started, edited>>

\* the bulk DELETE without its user filter
checkout_clear_unfiltered(r) ==
    /\ req[r].pc = "co_clear"
    /\ cart' = {}
    /\ Step(r, [req[r] EXCEPT !.pc = "co_invoice"])
    /\ UNCHANGED <<products, orders, items, started, edited>>

\* lines 532-533: bulk DELETE of the user's cart rows and the third commit
checkout_clear(r) ==
    /\ req[r].pc = "co_clear"
    /\ cart' = cart \ CartOf(req[r].user)
    /\ Step(r, [req[r] EXCEPT !.pc = "co_invoice"])
    /\ UNCHANGED <<products, orders, items, started, edited>>

\* lines 536-548: the invoice is rendered, its path stored, the response returned
checkout_invoice(r) ==
    /\ req[r].pc = "co_invoice"
    /\ orders' = {IF o.id = req[r].oid THEN [o EXCEPT !.invoice = TRUE] ELSE o
                  : o \in orders}
    /\ Step(r, Finished(req[r], "ok"))
    /\ UNCHANGED <<products, cart, items, started, edited>>

\* the failure of the invoice undoing the order and its items
checkout_invoice_rollback(r) ==
    /\ req[r].pc = "co_invoice"
    /\ orders' = {o \in orders : o.id # req[r].oid}
    /\ items' = items \ ItemsOf(req[r].oid)
    /\ Step(r, Finished(req[r], "ServerError"))
    /\ UNCHANGED <<products, cart, started, edited>>

\* line 538 raises (reportlab missing, invoice directory not writable): the
\* exception leaves the handler, the response is a 500
checkout_invoice_fails(r) ==
    /\ req[r].pc = "co_invoice"
    /\ Step(r, Finished(req[r], "ServerError"))
    /\ UNCHANGED <<db, started, edited>>

Next ==
    \E r \in Req :
        \/ update_product(r)
        \/ delete_product(r)
        \/ add_to_cart(r)
        \/ add_commit_merge(r)
        \/ add_commit_stale(r)
        \/ add_commit_insert(r)
        \/ update_cart_item(r)
        \/ update_commit(r)
        \/ update_commit_stale(r)
        \/ remove_cart_item(r)
        \/ remove_commit(r)
        \/ remove_commit_stale(r)
        \/ clear_cart(r)
        \/ checkout(r)
        \/ checkout_validate(r)
        \/ checkout_order(r)
        \/ checkout_item(r)
        \/ checkout_item_deleted(r)
        \/ checkout_commit(r)
        \/ checkout_clear(r)
        \/ checkout_invoice(r)
        \/ checkout_invoice_fails(r)

Spec == Init /\ [][Next]_vars

\* Checkouts alone, started with both users' carts already holding one line
\* per product, the same quantities in both carts: the state after four
\* accepted add_to_cart requests.
CheckoutAction(r) ==
    \/ checkout(r) \/ checkout_validate(r) \/ checkout_order(r) \/ checkout_item(r)
    \/ checkout_item_deleted(r) \/ checkout_commit(r) \/ checkout_clear(r)
    \/ checkout_invoice(r) \/ checkout_invoice_fails(r)

InitCheckouts ==
    /\ products = [p \in Products |-> [name |-> "n1", price |-> 1, stock |-> InitStock,
                                        live |-> TRUE]]
    /\ \E q \in [Products -> Qtys] :
        cart = {[id |-> 2 * (u - 1) + p, user |-> u, product |-> p,
                 quantity |-> q[p]] : u \in Users, p \in Products}
    /\ orders = {}
    /\ items = {}
    /\ req = [r \in Req |-> Idle]
    /\ started = 0
    /\ edited = FALSE

NextCheckouts == \E r \in Req : CheckoutAction(r)

SpecCheckouts == InitCheckouts /\ [][NextCheckouts]_vars

\* ---------------------------------------------------------------- properties
HasItems(o) == ItemsOf(o.id) # {}
OrderedQuantity(p) == SumQuantity({it \in items : it.product = p})

RECURSIVE LinesQuantity(_, _)
LinesQuantity(lines, p) ==
    IF lines = <<>> THEN 0
    ELSE (IF Head(lines).product = p THEN Head(lines).quantity ELSE 0)
         + LinesQuantity(Tail(lines), p)

ReadRows(r) == {c \in cart : \E k \in 1..Len(req[r].lines) : req[r].lines[k].id = c.id}

\* C1: every observable state shows a checkout whole: no order without its
\* order items, and no order items and stock decrements of a checkout while
\* the cart lines they were made from are still in the cart.
C1_CheckoutAllOrNothing ==
    /\ \A o \in orders : HasItems(o)
    /\ \A r \in Req : req[r].pc = "co_clear" => ReadRows(r) = {}

\* C2: with no catalog edits, under any interleaving of checkouts by different
\* users (at most one order per user), the quantity of a product recorded in
\* order items never exceeds the stock the product had before the checkouts
\* began.
C2_NoOversell ==
    (\A o1 \in orders, o2 \in orders : o1.user = o2.user => o1 = o2)
        => \A p \in Products : OrderedQuantity(p) <= InitStock

\* C3: the order of every checkout that returned successfully has
\* total_amount equal to the sum of its items' subtotals, and each item's
\* subtotal equals unit_price * quantity.
C3_TotalIsSumOfSubtotals ==
    \A r \in Req :
        (req[r].op = "checkout" /\ req[r].pc = "done" /\ req[r].res = "ok") =>
            \A o \in orders : o.id = req[r].oid =>
                /\ o.total = SumSubtotal(ItemsOf(o.id))
                /\ \A it \in ItemsOf(o.id) : it.subtotal = it.unit_price * it.quantity

\* C4: a checkout fails with InsufficientStock only from its validation loop,
\* before it has created an order, and neither the failing step nor any step
\* of the checkout before it changes products, cart, orders or order items.
C4_FailedCheckoutChangesNothing ==
    [][\A r \in Req :
        /\ (checkout(r) \/ checkout_validate(r)) => UNCHANGED db
        /\ (req[r].pc # "done" /\ req'[r].pc = "done" /\ req'[r].op = "checkout"
              /\ req'[r].res = "InsufficientStock")
            => (req[r].pc = "co_validate" /\ req[r].oid = 0 /\ UNCHANGED db)]_vars

\* a checkout failed on its second cart line
C4_Witness ==
    \E r \in Req : /\ req[r].op = "checkout" /\ req[r].pc = "done"
                    /\ req[r].res = "InsufficientStock" /\ req[r].i = 2

\* C5: every product's stock is >= 0 in every reachable state.
C5_StockNeverNegative == \A p \in Products : products[p].stock >= 0

\* more was ordered than the product ever had, and its stock stopped at zero
C5_Witness ==
    \E p \in Products : ~edited /\ products[p].stock = 0 /\ OrderedQuantity(p) > InitStock

\* C6: when a checkout of user U returns successfully and no other request of
\* U took a step while it ran, U's cart lists no items; and no step of a
\* checkout changes the cart rows of another user.
C6_CheckoutClearsCart ==
    [][\A r \in Req :
        /\ (checkout_invoice(r) /\ req[r].conc # 2) => view_cart(req[r].user)' = {}
        /\ (CheckoutAction(r) /\ req[r].pc # "done") =>
             \A u \in Users \ {req[r].user} : CartOf(u)' = CartOf(u)]_vars

\* a checkout returned while the other user's cart holds a line
C6_Witness ==
    \E r \in Req : /\ req[r].op = "checkout" /\ req[r].pc = "done" /\ req[r].res = "ok"
                    /\ CartOf(req[r].user) = {}
                    /\ \E u \in Users \ {req[r].user} : CartOf(u) # {}

\* C7: the second commit of a checkout that ran without interleaving lowers
\* each product's stock by the quantity of the cart lines for it and inserts
\* one order item per cart line with the product's name, price and the
\* line's quantity, all of the one order the checkout created.
C7_CheckoutEffect ==
    [][\A r \in Req : (checkout_commit(r) /\ req[r].conc = 0) =>
        /\ \A p \in Products :
              products'[p].stock = products[p].stock - LinesQuantity(req[r].lines, p)
        /\ Cardinality(items' \ items) = Len(req[r].lines)
        /\ \A k \in 1..Len(req[r].lines) : \E it \in items' \ items :
              /\ it.order = req[r].oid
              /\ it.product = req[r].lines[k].product
              /\ it.quantity = req[r].lines[k].quantity
              /\ it.name = products[it.product].name
              /\ it.unit_price = products[it.product].price
        /\ Cardinality({o \in orders : o.id = req[r].oid}) = 1]_vars

\* C8: an add that merges into an existing cart row, with no other request
\* interleaved, is accepted only when the existing quantity plus the added
\* quantity is within the product's stock.
C8_MergeWithinStock ==
    [][\A r \in Req : (add_commit_merge(r) /\ req[r].conc = 0) =>
        \A c \in cart' : c.id = req[r].lines[1].id =>
            c.quantity <= products'[c.product].stock]_vars

PairRows(rows, u, p) == {c \in rows : c.user = u /\ c.product = p}

\* C9: an accepted add that runs without interleaving leaves one row of
\* quantity q when the pair had no row, and one row of quantity q1 + q when
\* the pair had one row of quantity q1.
C9_SequentialAddsMerge ==
    [][\A r \in Req : req[r].conc = 0 =>
        /\ add_commit_insert(r) =>
             \E c \in cart' : /\ PairRows(cart', req[r].user, req[r].arg) = {c}
                               /\ c.quantity = req[r].qty
        /\ (add_commit_merge(r)
              /\ Cardinality(PairRows(cart, req[r].user, req[r].arg)) = 1) =>
             \E c \in cart' : /\ PairRows(cart', req[r].user, req[r].arg) = {c}
                               /\ \E c0 \in cart : /\ c0.id = c.id
                                                    /\ c.quantity = c0.quantity + req[r].qty]_vars

\* adds of MaxQty - 1 and MaxQty merged into the pair's one row
C9_Witness ==
    \E c \in cart : /\ c.quantity = (MaxQty - 1) + MaxQty
                     /\ PairRows(cart, c.user, c.product) = {c}

\* C10: there is at most one cart row per (user, product) pair.
C10_OneRowPerPair ==
    \A c1 \in cart, c2 \in cart :
        (c1.user = c2.user /\ c1.product = c2.product) => c1 = c2

Foreign(rows, u, id) == \E x \in rows : x.id = id /\ x.user # u

\* C11: update_cart_item or remove_cart_item called by a user with the id of
\* another user's cart row ends at once with NotFound and changes nothing in
\* products, cart, orders or order items; get_order called with the id of
\* another user's order gives NotFound, as it does for an id no order has.
C11_OwnershipIsolation ==
    [][/\ \A r \in Req :
            ((update_cart_item(r) \/ remove_cart_item(r))
               /\ Foreign(cart, req'[r].user, req'[r].arg))
            => (req'[r].pc = "done" /\ req'[r].res = "NotFound" /\ UNCHANGED db)
       /\ \A u \in Users : \A o \in orders :
            o.user # u => /\ get_order(u, o.id) = "NotFound"
                          /\ get_order(u, o.id) = get_order(u, NextId(orders))]_vars

\* a user was answered NotFound for the id of a row in the other user's cart
C11_Witness ==
    \E r \in Req : /\ req[r].op \in {"update_cart_item", "remove_cart_item"}
                    /\ req[r].pc = "done" /\ req[r].res = "NotFound"
                    /\ Foreign(cart, req[r].user, req[r].arg)

\* C12: an update_product call leaves every existing order item (name
\* snapshot, unit price, quantity, subtotal) and every existing order's
\* total_amount as they were.
C12_EditsLeaveOrdersAlone ==
    [][\A r \in Req : update_product(r) =>
        /\ items' = items
        /\ \A o \in orders : \E o2 \in orders' : o2.id = o.id /\ o2.total = o.total]_vars

\* an order item whose product was edited after the item was committed: the
\* stock is back at its first value and the price differs from the snapshot
C12_Witness ==
    \E it \in items : /\ products[it.product].stock = InitStock
                       /\ products[it.product].price # it.unit_price

\* C13: no step removes the order of a checkout that returned successfully
\* or changes its total, and no step removes or changes any of its order
\* items; deleting a product leaves the order items that reference it in
\* place.
C13_OrdersKept ==
    [][\A o \in orders :
        o.invoice =>
            /\ \E o2 \in orders' : o2.id = o.id /\ o2.user = o.user /\ o2.total = o.total
            /\ ItemsOf(o.id)' = ItemsOf(o.id)]_vars

\* C14: the step at which invoice rendering fails changes nothing in
\* products, cart, orders or order items: the order stays and is listed for
\* its owner with the items it had, no order is added; and when no other
\* request took a step during the checkout, the order has its items and the
\* owner's cart is empty.
C14_InvoiceFailureKeepsOrder ==
    [][\A r \in Req : checkout_invoice_fails(r) =>
        /\ UNCHANGED db
        /\ \E o \in list_orders(req[r].user)' :
              o.id = req[r].oid /\ o.items = ItemsOf(req[r].oid)
        /\ req[r].conc = 0 =>
              /\ Cardinality(ItemsOf(req[r].oid)') = Len(req[r].lines)
              /\ CartOf(req[r].user)' = {}]_vars

\* a checkout ended in the invoice failure: its order has its items
C14_Witness ==
    \E r \in Req : /\ req[r].op = "checkout" /\ req[r].pc = "done"
                    /\ req[r].res = "ServerError"
                    /\ ItemsOf(req[r].oid) # {}
                    /\ \E o \in orders : o.id = req[r].oid /\ ~o.invoice

\* C15: a checkout whose invoice rendering fails still returns the success
\* response of the order it created.
C15_InvoiceFailureStillSucceeds ==
    [][\A r \in Req : checkout_invoice_fails(r) => req'[r].res = "ok"]_vars

\* C16: a checkout by a user whose cart is empty ends at once with EmptyCart
\* and changes nothing in products, cart, orders or order items.
C16_EmptyCartChangesNothing ==
    [][\A r \in Req : (checkout(r) /\ CartOf(req'[r].user) = {}) =>
        /\ req'[r].pc = "done" /\ req'[r].res = "EmptyCart"
        /\ UNCHANGED db]_vars

\* a checkout was answered EmptyCart
C16_Witness ==
    \E r \in Req : /\ req[r].op = "checkout" /\ req[r].pc = "done"
                    /\ req[r].res = "EmptyCart" /\ orders = {}

\* C17: download_invoice answers with the order's document exactly when an
\* order of that id exists, belongs to the caller and has its invoice
\* recorded, and with not-found in every other case; and the owner of the
\* order of a checkout that returned successfully gets its document.
C17_InvoiceRetrieval ==
    /\ \A u \in Users : \A id \in 1..NextId(orders) :
          IF \E o \in orders : o.id = id /\ o.user = u /\ o.invoice
          THEN download_invoice(u, id) = InvoiceFile(id)
          ELSE download_invoice(u, id) = InvoiceNotFound
    /\ \A r \in Req :
          (req[r].op = "checkout" /\ req[r].pc = "done" /\ req[r].res = "ok") =>
              download_invoice(req[r].user, req[r].oid) = InvoiceFile(req[r].oid)

\* a checkout returned successfully while another order has no invoice yet
C17_Witness ==
    \E r \in Req : /\ req[r].op = "checkout" /\ req[r].pc = "done" /\ req[r].res = "ok"
                    /\ download_invoice(req[r].user, req[r].oid) = InvoiceFile(req[r].oid)
                    /\ \E o \in orders : ~o.invoice

OwnerOf(it) == (CHOOSE o \in orders : o.id = it.order).user

\* C18: with each cart holding one line per product and checkouts the only
\* requests, the line of a user for a product becomes order items of at most
\* one order, under any interleaving of that user's checkouts.
C18_LineOrderedOnce ==
    \A it1 \in items, it2 \in items :
        (it1.product = it2.product /\ OwnerOf(it1) = OwnerOf(it2)) => it1 = it2

\* C19: with no catalog edits, every cart row that a checkout's clearing step
\* deletes has an order item of that checkout's order with the row's product
\* and quantity, under any interleaving.
C19_ClearedLinesAreOrdered ==
    [][\A r \in Req : (checkout_clear(r) /\ ~edited) =>
        \A c \in cart \ cart' :
            \E it \in ItemsOf(req[r].oid) :
                it.product = c.product /\ it.quantity = c.quantity]_vars

\* C20: with no catalog edits, once all checkouts have returned, each user
\* having at most one order and every order being of a successful checkout,
\* a product whose ordered quantity is within its initial stock has stock
\* equal to the initial stock minus the ordered quantity.
C20_StockConserved ==
    (/\ \A r \in Req : req[r].pc = "done"
     /\ \A o1 \in orders, o2 \in orders : o1.user = o2.user => o1 = o2
     /\ \A o \in orders : o.invoice)
        => \A p \in Products :
              OrderedQuantity(p) <= InitStock =>
                  products[p].stock = InitStock - OrderedQuantity(p)

====
